---- MODULE Spec2Model ----
(***************************************************************************)
(* h5ld: decoding of the Allotrope Data Format data description            *)
(* (src/h5ld/adf.py).  AllotropeDF.dump_ld runs _get_quads over the        *)
(* /data-description/quads table, resolving the packed node references     *)
(* through the dictionary (_get_string) and writing one N-Quads line per   *)
(* processed row into an in-memory buffer, which is then committed to the  *)
(* destination.                                                            *)
(*                                                                         *)
(* Representation.                                                         *)
(*   - an int64 value of the quads table is the set of the positions of    *)
(*     its 1 bits, 0 the least significant, 63 the sign (two's complement):*)
(*     {0, 62} is 2^62 + 1;                                                *)
(*   - a byte is a number in 0..255, a byte string a sequence of bytes;    *)
(*   - a Python str is the sequence of its code points;                    *)
(*   - the outcome of a call that may raise is [err, val]: err = "none"    *)
(*     and the value returned, or the name of the exception raised.        *)
(***************************************************************************)
EXTENDS Integers, Sequences, FiniteSets

\* ------------------------------------------------------------- bounds
\* Largest number of rows of the quads table.
MaxRows == 3
\* Longest dictionary string enumerated exhaustively over Alphabet.
MaxStrLen == 1

\* ---------------------------------------------------------- constants
\* Width of the int64 values of the quads table.
WordBits == 64
\* Width of a dictionary key row: 8 offset bytes, 4 length bytes, 1 flag.
KeyWidth == 13

\* The bit positions of an int64: 0 the least significant, 63 the sign.
Bits == 0 .. (WordBits - 1)

\* ------------------------------------------------------ int64 helpers
\* Bit b of the int64 x.
Bit(x, b) == IF b \in x THEN 1 ELSE 0

BitOf(n, b) == (n \div (2 ^ b)) % 2

\* The packed node reference the decoder reads: value key in bits 0-30,
\* resource key in bits 31-61, kind in bits 62-63.
Pack(kind, rk, vk) ==
    {b \in Bits : (IF b < 31 THEN BitOf(vk, b)
                   ELSE IF b < 62 THEN BitOf(rk, b - 31)
                   ELSE BitOf(kind, b - 62)) = 1}

\* node_id_31bit_mask = 0x7FFFFFFF as an int64.
node_id_31bit_mask == {b \in Bits : b < 31}

\* The literal 3 of line 110 as an int64.
kind_mask == {b \in Bits : b < 2}

\* np.bitwise_and on int64.
bitwise_and(x, y) == x \cap y

\* np.right_shift on int64: arithmetic, the sign bit is replicated.
right_shift(x, n) ==
    {b \in Bits : IF b + n < WordBits THEN b + n \in x ELSE WordBits - 1 \in x}

RECURSIVE SumBits(_, _)
SumBits(x, b) == IF b > 30 THEN 0 ELSE Bit(x, b) + 2 * SumBits(x, b + 1)

\* The number held by a masked (non-negative, below 2^31) int64.
ToInt(x) == SumBits(x, 0)

\* ----------------------------------------------------- Python helpers
Raise(e) == [err |-> e, val |-> <<>>]
Return(v) == [err |-> "none", val |-> v]

\* A slice bound as Python normalises it against a length n.
PyBound(k, n) ==
    IF k < 0 THEN (IF k + n < 0 THEN 0 ELSE k + n)
    ELSE (IF k > n THEN n ELSE k)

\* s[a:b] on a sequence: never raises, clamps both bounds.
PySlice(s, a, b) ==
    LET lo == PyBound(a, Len(s))
        hi == PyBound(b, Len(s))
    IN  IF lo < hi THEN SubSeq(s, lo + 1, hi) ELSE <<>>

\* bytes.decode("utf-8"), for one- and two-byte sequences; every other
\* lead byte used by the model (a continuation byte, 0xC0, 0xC1, 0xFF) is
\* invalid.
RECURSIVE Utf8Valid(_)
Utf8Valid(bs) ==
    IF bs = <<>> THEN TRUE
    ELSE IF bs[1] < 128 THEN Utf8Valid(Tail(bs))
    ELSE IF /\ bs[1] >= 194
            /\ bs[1] <= 223
            /\ Len(bs) >= 2
            /\ bs[2] >= 128
            /\ bs[2] <= 191
         THEN Utf8Valid(Tail(Tail(bs)))
         ELSE FALSE

RECURSIVE Utf8Points(_)
Utf8Points(bs) ==
    IF bs = <<>> THEN <<>>
    ELSE IF bs[1] < 128 THEN <<bs[1]>> \o Utf8Points(Tail(bs))
    ELSE <<(bs[1] - 192) * 64 + (bs[2] - 128)>> \o Utf8Points(Tail(Tail(bs)))

Utf8Decode(bs) ==
    IF Utf8Valid(bs) THEN Return(Utf8Points(bs)) ELSE Raise("UnicodeDecodeError")

\* str.encode("utf-8") as io.TextIOWrapper applies it, code points < 0x800.
RECURSIVE Utf8Encode(_)
Utf8Encode(s) ==
    IF s = <<>> THEN <<>>
    ELSE IF s[1] < 128 THEN <<s[1]>> \o Utf8Encode(Tail(s))
    ELSE <<192 + (s[1] \div 64), 128 + (s[1] % 64)>> \o Utf8Encode(Tail(s))

\* np.frombuffer(..., dtype=">i8" / ">i4")[0]: big-endian, signed.
RECURSIVE BEAcc(_, _)
BEAcc(bs, acc) == IF bs = <<>> THEN acc ELSE BEAcc(Tail(bs), acc * 256 + bs[1])

BEInt(bs) == BEAcc(Tail(bs), IF bs[1] >= 128 THEN bs[1] - 256 ELSE bs[1])

\* str.replace(c, r) for a one-character pattern c.
RECURSIVE Replace(_, _, _)
Replace(s, c, r) ==
    IF s = <<>> THEN <<>>
    ELSE (IF s[1] = c THEN r ELSE <<s[1]>>) \o Replace(Tail(s), c, r)

\* " ".join(parts)
RECURSIVE Join(_)
Join(parts) ==
    IF parts = <<>> THEN <<>>
    ELSE IF Len(parts) = 1 THEN parts[1]
    ELSE parts[1] \o <<32>> \o Join(Tail(parts))

RECURSIVE Concat(_)
Concat(ss) == IF ss = <<>> THEN <<>> ELSE ss[1] \o Concat(Tail(ss))

\* --------------------------------------------------------- dictionary
\* Faulty variant of _get_string: the length is taken as the slice's end.
_get_string_count_as_end(ks, ss, key) ==
    IF key >= Len(ks) THEN Raise("IndexError")
    ELSE LET value == ks[key + 1]
             last == value[Len(value)]
         IN  IF last > 0
             THEN Utf8Decode(PySlice(value, 0, last))
             ELSE LET start == BEInt(PySlice(value, 0, 8))
                      count == BEInt(PySlice(value, 8, -1))
                  IN  Utf8Decode(PySlice(ss, start, count))

\* AllotropeDF._get_string
_get_string(ks, ss, key) ==
    IF key >= Len(ks) THEN Raise("IndexError")
    ELSE LET value == ks[key + 1]
             last == value[Len(value)]
         IN  IF last > 0
             THEN Utf8Decode(PySlice(value, 0, last))
             ELSE LET start == BEInt(PySlice(value, 0, 8))
                      count == BEInt(PySlice(value, 8, -1))
                  IN  Utf8Decode(PySlice(ss, start, start + count))

\* --------------------------------------------------------- node forms
\* Faulty variant of Escape: an eighth replacement escapes the backslash, last.
EscapeBackslashLast(val) ==
    Replace(Replace(Replace(Replace(Replace(Replace(Replace(Replace(val,
        34, <<92, 34>>),
        39, <<92, 39>>),
        9, <<92, 116>>),
        10, <<92, 110>>),
        13, <<92, 114>>),
        8, <<92, 98>>),
        12, <<92, 102>>),
        92, <<92, 92>>)

\* The seven replacements of _literal_node, in source order.
Escape(val) ==
    Replace(Replace(Replace(Replace(Replace(Replace(Replace(val,
        34, <<92, 34>>),
        39, <<92, 39>>),
        9, <<92, 116>>),
        10, <<92, 110>>),
        13, <<92, 114>>),
        8, <<92, 98>>),
        12, <<92, 102>>)

\* AllotropeDF._resource_node after val = self._get_string(val_key).
resource_body(ks, ss, res_key, val) ==
    LET res == _get_string(ks, ss, res_key)
    IN  IF res.err # "none" THEN res
        ELSE Return(<<60>> \o res.val \o val \o <<62>>)

\* AllotropeDF._literal_node after val = self._get_string(val_key).
literal_body(ks, ss, res_key, val) ==
    IF res_key = 0
    THEN Return(<<34>> \o Escape(val) \o <<34>>)
    ELSE LET res == _get_string(ks, ss, res_key)
         IN  IF res.err # "none" THEN res
             ELSE Return(<<34>> \o Escape(val) \o <<34, 94, 94, 60>>
                         \o res.val \o <<62>>)

\* AllotropeDF._blank_node after val = self._get_string(val_key): val[0]
\* raises IndexError on the empty string.
blank_body(ks, ss, res_key, val) ==
    IF val = <<>> THEN Raise("IndexError")
    ELSE Return(<<95, 58>> \o (IF val[1] = 45 THEN Tail(val) ELSE val))

\* template = [self._blank_node, self._resource_node, self._literal_node],
\* indexed by the node kind.
template_body(kind, ks, ss, res_key, val) ==
    CASE kind = 0 -> blank_body(ks, ss, res_key, val)
      [] kind = 1 -> resource_body(ks, ss, res_key, val)
      [] kind = 2 -> literal_body(ks, ss, res_key, val)

\* ------------------------------------------------------------- inputs
\* n zero bytes.
Zeros(n) == [k \in 1 .. n |-> 0]

\* A direct-mode key row: the string's bytes, padding, and its length as
\* the last byte.
DirectRow(bs) == bs \o Zeros(KeyWidth - 1 - Len(bs)) \o <<Len(bs)>>

\* v in -128..127 as n big-endian two's complement bytes.
BEBytes(v, n) ==
    [k \in 1 .. n |-> IF k = n THEN (v + 256) % 256
                      ELSE IF v < 0 THEN 255 ELSE 0]

\* An indirect-mode key row: 8 offset bytes, 4 length bytes, last byte 0.
IndirectRow(o, l) == BEBytes(o, 8) \o BEBytes(l, 4) \o <<0>>

\* A key row whose last byte equals the row width: direct mode taking the
\* whole row, flag byte included.
FullRow == [k \in 1 .. KeyWidth |-> IF k = KeyWidth THEN KeyWidth ELSE 97]

\* The characters _literal_node and _blank_node treat specially, a
\* backslash and a plain letter.
Alphabet == {34, 39, 9, 10, 13, 8, 12, 92, 45, 97}

\* All byte strings over Alphabet of length 1..n.
RECURSIVE StringsUpTo(_)
StringsUpTo(n) ==
    IF n = 0 THEN {}
    ELSE {<<c>> : c \in Alphabet}
         \cup StringsUpTo(n - 1)
         \cup {s \o <<c>> : s \in StringsUpTo(n - 1), c \in Alphabet}

\* Longer strings and byte strings that are not ASCII: a"<newline>,
\* backslash n, --a, e-acute (two bytes), an invalid byte, a cut sequence.
ExtraStrings ==
    {<<97, 34, 10>>, <<92, 110>>, <<45, 45, 97>>, <<195, 169>>, <<255>>,
     <<97, 195>>}

Offsets == {-3, -1, 0, 1, 2, 5}
Lengths == {-1, 0, 1, 2, 5}

\* The key rows a single node is resolved against.
NodeRows ==
    {DirectRow(s) : s \in StringsUpTo(MaxStrLen) \cup ExtraStrings}
    \cup {IndirectRow(o, l) : o \in Offsets, l \in Lengths}
    \cup {FullRow}

\* The byte store of the single-node runs: "-a" and a two-byte e-acute.
NodeBytes == <<45, 97, 195, 169>>

\* Dictionary keys: two rows of the key table and the largest 31-bit key.
KeyPool == {0, 1, 2147483647}

Kinds == 0 .. 3

\* Key row 0 of every dictionary: the namespace "h:".
NamespaceRow == DirectRow(<<104, 58>>)

\* The dictionary of the table runs: "h:", "s", "-b" and, indirectly,
\* "g1" at offset 0 of the byte store.
TableKeys ==
    <<NamespaceRow, DirectRow(<<115>>), DirectRow(<<45, 98>>), IndirectRow(0, 2)>>

TableBytes == <<103, 49>>

\* A well-formed resource node <h:s>.
ResNode == Pack(1, 0, 1)

\* The rows of the table runs, each [graph, subject, predicate, object]:
\* two decodable rows and a row that fails to decode in its last column.
RowA == <<Pack(0, 0, 3), ResNode, ResNode, Pack(2, 0, 1)>>
RowB == <<Pack(0, 0, 2), Pack(0, 0, 3), ResNode, Pack(2, 1, 3)>>
RowBad == <<ResNode, ResNode, ResNode, Pack(3, 0, 3)>>

RowPool == {RowA, RowB, RowBad}

Flags == {0, 1}

\* A row of the N x 5 dataset: four node references and the validity flag.
TableRows == {[node |-> r, flag |-> f] : r \in RowPool, f \in Flags}

RECURSIVE TablesUpTo(_)
TablesUpTo(n) ==
    IF n = 0 THEN {<<>>}
    ELSE TablesUpTo(n - 1)
         \cup {Append(t, r) : t \in {u \in TablesUpTo(n - 1) : Len(u) = n - 1},
                              r \in TableRows}

\* -------------------------------------------------------------- state
VARIABLES
    h5_quads,        \* dataset /data-description/quads
    h5_size,         \* its attribute "size"
    h5_keys,         \* dataset /data-description/dictionary/keys
    h5_bytes,        \* dataset /data-description/dictionary/bytes
    pc,              \* position in dump_ld / _get_quads ("done": returned)
    quads,           \* _get_quads: the filtered array, shifted in place
    num_quads,       \* _get_quads: quads.shape[0] before filtering
    num_good_quads,  \* _get_quads: the size attribute
    key_store,       \* self.key_store
    str_store,       \* self.str_store
    qrow,            \* _get_quads: the row loop's index
    node_value_key,  \* _get_quads: per column, bits 0-30
    node_key,        \* _get_quads: per column, bits 31-61
    node_kind,       \* _get_quads: per column, bits 62-63
    i,               \* _get_quads: the column loop's index
    val,             \* the node function's val = self._get_string(val_key)
    quad_content,    \* _get_quads: the node strings of the current row
    store,           \* the strings written to the in-memory text buffer
    dest,            \* the destination: whether opened, the bytes written
    err              \* the exception that ended dump_ld at pc, or "none"

vars ==
    <<h5_quads, h5_size, h5_keys, h5_bytes, pc, quads, num_quads,
      num_good_quads, key_store, str_store, qrow, node_value_key, node_key,
      node_kind, i, val, quad_content, store, dest, err>>

inputs == <<h5_quads, h5_size, h5_keys, h5_bytes>>

\* A destination nothing has opened or written.
Untouched == [opened |-> FALSE, written |-> <<>>, format |-> "none"]

\* The state of a fresh AllotropeDF on which dump_ld has been called.
Fresh ==
    /\ pc = "get_quads"
    /\ quads = <<>>
    /\ num_quads = 0
    /\ num_good_quads = 0
    /\ key_store = <<>>
    /\ str_store = <<>>
    /\ qrow = 0
    /\ node_value_key = <<>>
    /\ node_key = <<>>
    /\ node_kind = <<>>
    /\ i = 0
    /\ val = <<>>
    /\ quad_content = <<>>
    /\ store = <<>>
    /\ dest = Untouched
    /\ err = "none"

\* Table runs: any table of up to MaxRows pool rows, any size attribute.
Init ==
    /\ h5_quads \in TablesUpTo(MaxRows)
    /\ h5_size \in 0 .. (MaxRows + 1)
    /\ h5_keys = TableKeys
    /\ h5_bytes = TableBytes
    /\ Fresh

\* A node that resolves against key row 0 alone: <h:h:>.
PlainNode == Pack(1, 0, 0)

\* Single-node runs: one valid row whose first or last column is any
\* packed node reference, resolved against a dictionary whose row 1 is any
\* pool row.
InitNode ==
    /\ \E k \in Kinds, rk \in KeyPool, vk \in KeyPool, col \in {1, 4} :
          h5_quads = <<[node |-> [c \in 1 .. 4 |-> IF c = col THEN Pack(k, rk, vk)
                                                  ELSE PlainNode],
                        flag |-> 0]>>
    /\ h5_size = 1
    /\ \E r \in NodeRows : h5_keys = <<NamespaceRow, r>>
    /\ h5_bytes = NodeBytes
    /\ Fresh

\* ------------------------------------------------------------ actions
\* quads[quads[:, -1] == 0, :-1]: the rows whose flag is 0, in table
\* order, without the flag column.
ValidRows(t) ==
    LET sel == SelectSeq(t, LAMBDA r : r.flag = 0)
    IN  [k \in 1 .. Len(sel) |-> sel[k].node]

\* Faulty variant of value_key_of: the value key is read after the in-place shift.
value_key_after_shift(w) ==
    ToInt(bitwise_and(right_shift(w, 31), node_id_31bit_mask))

\* np.bitwise_and(quad, node_id_31bit_mask), one element.
value_key_of(w) == ToInt(bitwise_and(w, node_id_31bit_mask))

\* np.right_shift(quad, 31, out=quad), one element: what quad holds after.
shifted_of(w) == right_shift(w, 31)

\* np.bitwise_and(np.right_shift(quad, 31, out=quad), mask), one element.
key_of(w) == ToInt(bitwise_and(shifted_of(w), node_id_31bit_mask))

\* Faulty variant of kind_of: the first shift did not write back into quad.
kind_of_unshifted(w) == ToInt(bitwise_and(right_shift(w, 31), kind_mask))

\* np.bitwise_and(np.right_shift(quad, 31), 3), one element: quad has
\* already been shifted in place.
kind_of(w) == ToInt(bitwise_and(right_shift(shifted_of(w), 31), kind_mask))

\* Faulty variant of Line: the columns are written in stored order, graph first.
LineStoredOrder(qc) == Join(qc) \o <<32, 46, 10>>

\* The text of one store.write call.
Line(qc) == Join(Tail(qc)) \o <<32>> \o qc[1] \o <<32, 46, 10>>

\* Faulty variant of LoopEnds: the size test is off by one.
LoopEndsLate(q, nq, ngq) == q >= nq \/ q > ngq

\* Whether the row loop stops before row q.
LoopEnds(q, nq, ngq) == q >= nq \/ q >= ngq

\* The exception propagates out of dump_ld: nothing runs after it.
Raised(e) ==
    /\ err' = e
    /\ pc' = pc

\* _get_quads up to the row loop.
Start ==
    /\ pc = "get_quads"
    /\ err = "none"
    /\ num_quads' = Len(h5_quads)
    /\ num_good_quads' = h5_size
    /\ quads' = ValidRows(h5_quads)
    /\ key_store' = h5_keys
    /\ str_store' = h5_bytes
    /\ qrow' = 0
    /\ pc' = "loop"
    /\ UNCHANGED <<inputs, node_value_key, node_key, node_kind, i, val,
                   quad_content, store, dest, err>>

\* One pass through the head of the row loop: the loop's end, or the
\* row's three bit fields.
LoopHead ==
    /\ pc = "loop"
    /\ err = "none"
    /\ IF LoopEnds(qrow, num_quads, num_good_quads)
       THEN /\ pc' = "commit"
            /\ UNCHANGED <<quads, node_value_key, node_key, node_kind, i,
                           quad_content, err>>
       ELSE IF qrow >= Len(quads)
       THEN /\ Raised("IndexError")
            /\ UNCHANGED <<quads, node_value_key, node_key, node_kind, i,
                           quad_content>>
       ELSE LET quad == quads[qrow + 1]
            IN  /\ node_value_key' = [c \in 1 .. Len(quad) |-> value_key_of(quad[c])]
                /\ node_key' = [c \in 1 .. Len(quad) |-> key_of(quad[c])]
                /\ node_kind' = [c \in 1 .. Len(quad) |-> kind_of(quad[c])]
                /\ quads' = [quads EXCEPT
                               ![qrow + 1] = [c \in 1 .. Len(quad) |-> shifted_of(quad[c])]]
                /\ quad_content' = <<>>
                /\ i' = 0
                /\ pc' = "node"
                /\ UNCHANGED err
    /\ UNCHANGED <<inputs, num_quads, num_good_quads, key_store, str_store,
                   qrow, val, store, dest>>

\* template[node_kind[i]](...) up to the node function's first statement,
\* val = self._get_string(val_key).
CallNode ==
    /\ pc = "node"
    /\ err = "none"
    /\ IF node_kind[i + 1] >= 3
       THEN /\ Raised("IndexError")
            /\ UNCHANGED val
       ELSE LET r == _get_string(key_store, str_store, node_value_key[i + 1])
            IN  IF r.err # "none"
                THEN /\ Raised(r.err)
                     /\ UNCHANGED val
                ELSE /\ val' = r.val
                     /\ pc' = "body"
                     /\ UNCHANGED err
    /\ UNCHANGED <<inputs, quads, num_quads, num_good_quads, key_store,
                   str_store, qrow, node_value_key, node_key, node_kind, i,
                   quad_content, store, dest>>

\* The rest of the node function and quad_content.append.
NodeBody ==
    /\ pc = "body"
    /\ err = "none"
    /\ LET r == template_body(node_kind[i + 1], key_store, str_store,
                              node_key[i + 1], val)
       IN  IF r.err # "none"
           THEN /\ Raised(r.err)
                /\ UNCHANGED <<quad_content, i>>
           ELSE /\ quad_content' = Append(quad_content, r.val)
                /\ IF i + 1 < Len(node_kind)
                   THEN /\ i' = i + 1
                        /\ pc' = "node"
                   ELSE /\ i' = i
                        /\ pc' = "write"
                /\ UNCHANGED err
    /\ UNCHANGED <<inputs, quads, num_quads, num_good_quads, key_store,
                   str_store, qrow, node_value_key, node_key, node_kind, val,
                   store, dest>>

\* Faulty variant of WriteLine: the line goes to the destination as it is made.
WriteLineToDestination ==
    /\ pc = "write"
    /\ err = "none"
    /\ store' = Append(store, Line(quad_content))
    /\ dest' = [opened |-> TRUE,
                written |-> dest.written \o Utf8Encode(Line(quad_content)),
                format |-> "nquads"]
    /\ qrow' = qrow + 1
    /\ pc' = "loop"
    /\ UNCHANGED <<inputs, quads, num_quads, num_good_quads, key_store,
                   str_store, node_value_key, node_key, node_kind, i, val,
                   quad_content, err>>

\* store.write(...) and the next row.
WriteLine ==
    /\ pc = "write"
    /\ err = "none"
    /\ store' = Append(store, Line(quad_content))
    /\ qrow' = qrow + 1
    /\ pc' = "loop"
    /\ UNCHANGED <<inputs, quads, num_quads, num_good_quads, key_store,
                   str_store, node_value_key, node_key, node_kind, i, val,
                   quad_content, dest, err>>

Destinations == {"None", "str", "BytesIO"}
Formats == {"nquads", "json-ld", "turtle"}

\* dump_ld after _get_quads has returned.  Opening the file and rdflib's
\* parse are outside the repository: either may fail.  A destination
\* written through rdflib's serialize records the format only.
Commit ==
    /\ pc = "commit"
    /\ err = "none"
    /\ \E destination \in Destinations, format \in Formats, ok \in BOOLEAN :
          LET buf == Utf8Encode(Concat(store))
          IN  IF destination = "None"
              THEN /\ IF ok THEN pc' = "done" /\ UNCHANGED err
                            ELSE Raised("ParserError")
                   /\ UNCHANGED dest
              ELSE IF format = "nquads"
              THEN IF destination = "str" /\ ~ok
                   THEN /\ Raised("OSError")
                        /\ UNCHANGED dest
                   ELSE /\ dest' = [opened |-> destination = "str",
                                    written |-> buf, format |-> format]
                        /\ pc' = "done"
                        /\ UNCHANGED err
              ELSE IF ~ok
                   THEN /\ Raised("ParserError")
                        /\ UNCHANGED dest
                   ELSE /\ dest' = [opened |-> destination = "str",
                                    written |-> <<>>, format |-> format]
                        /\ pc' = "done"
                        /\ UNCHANGED err
    /\ UNCHANGED <<inputs, quads, num_quads, num_good_quads, key_store,
                   str_store, qrow, node_value_key, node_key, node_kind, i,
                   val, quad_content, store>>

Next ==
    \/ Start
    \/ LoopHead
    \/ CallNode
    \/ NodeBody
    \/ WriteLine
    \/ Commit

Spec == Init /\ [][Next]_vars

SpecNode == InitNode /\ [][Next]_vars

\* ------------------------------------------------------------- claims
\* The n-bit field of the int64 w that starts at bit lo, read off the bit
\* layout: kind = bits 62-63, resource key = bits 31-61, value key = bits
\* 0-30.
RECURSIVE Field(_, _, _)
Field(w, lo, n) == IF n = 0 THEN 0 ELSE Bit(w, lo) + 2 * Field(w, lo + 1, n - 1)

\* The outcome of rendering the node reference w against the dictionary of
\* the file.
NodeText(w) ==
    LET kind == Field(w, 62, 2)
        v == _get_string(h5_keys, h5_bytes, Field(w, 0, 31))
    IN  IF kind = 3 THEN Raise("IndexError")
        ELSE IF v.err # "none" THEN v
        ELSE template_body(kind, h5_keys, h5_bytes, Field(w, 31, 31), v.val)

\* The N-Quads line of a stored row [graph, subject, predicate, object].
ExpectedLine(row) ==
    NodeText(row[2]).val \o <<32>> \o NodeText(row[3]).val \o <<32>>
    \o NodeText(row[4]).val \o <<32>> \o NodeText(row[1]).val
    \o <<32, 46, 10>>

\* The node columns of the first n rows of t whose flag is 0.
RECURSIVE FirstValid(_, _)
FirstValid(t, n) ==
    IF t = <<>> \/ n <= 0 THEN <<>>
    ELSE IF t[1].flag = 0 THEN <<t[1].node>> \o FirstValid(Tail(t), n - 1)
    ELSE FirstValid(Tail(t), n)

\* The number of rows of the table whose flag is 0.
NumValid == Cardinality({k \in 1 .. Len(h5_quads) : h5_quads[k].flag = 0})

\* C1: every line written is the rendered subject, predicate, object and
\* then graph of its row (stored graph first), separated by single spaces
\* and ended by " ." and a newline; one line is written per processed row.
C1_LineIsSubjectPredicateObjectGraph ==
    /\ LET rows == ValidRows(h5_quads)
       IN  \A k \in 1 .. Len(store) : store[k] = ExpectedLine(rows[k])
    /\ pc \in {"loop", "commit", "done"} => Len(store) = qrow

\* C1 witness: the one-row table graph=_:g1, subject=predicate=<h:s>,
\* object="s" was decoded and its line reached an N-Quads destination.
C1_Witness ==
    /\ pc = "done"
    /\ h5_size = 1
    /\ store = << <<60, 104, 58, 115, 62, 32, 60, 104, 58, 115, 62, 32,
                    34, 115, 34, 32, 95, 58, 103, 49, 32, 46, 10>> >>
    /\ dest.written = store[1]

\* C2: when size does not exceed the number of valid rows, the lines
\* written are those of the first size valid rows, in table order, and
\* once the row loop has ended there are exactly size of them.
C2_FirstSizeValidRows ==
    h5_size <= NumValid =>
        /\ Len(store) <= h5_size
        /\ LET rows == FirstValid(h5_quads, h5_size)
           IN  \A k \in 1 .. Len(store) : store[k] = ExpectedLine(rows[k])
        /\ pc \in {"commit", "done"} => Len(store) = h5_size

\* C2 witness: an invalid (and undecodable) row followed by two valid
\* rows, with size 1: the invalid row is skipped, the first valid row is
\* written and the second valid row is not.
C2_Witness ==
    /\ pc = "done"
    /\ h5_quads = <<[node |-> RowBad, flag |-> 1], [node |-> RowA, flag |-> 0],
                    [node |-> RowB, flag |-> 0]>>
    /\ h5_size = 1
    /\ store = <<ExpectedLine(RowA)>>

\* C3 (the claim as stated): when size exceeds the number of valid rows,
\* the decoder stops after the last valid row without an error.
C3_ClampsWithoutError ==
    (h5_size > NumValid /\ pc = "loop" /\ qrow = NumValid) => err = "none"

\* The number of rows the decoder is to process.
ToProcess == IF h5_size < NumValid THEN h5_size ELSE NumValid

\* C4: the destination is opened or written only after every row has been
\* decoded into the buffer; once an exception has ended dump_ld (in the
\* decoding, or in opening or parsing) the destination is untouched.
C4_DestinationOnlyAfterFullDecode ==
    /\ dest # Untouched =>
          /\ pc = "done"
          /\ err = "none"
          /\ Len(store) = ToProcess
          /\ dest.format = "nquads" => dest.written = Utf8Encode(Concat(store))
    /\ err # "none" => dest = Untouched

\* C4 witness: a row failed to decode after an earlier row had been
\* written to the buffer, and the destination is untouched.
C4_Witness ==
    /\ err = "IndexError"
    /\ pc = "node"
    /\ Len(store) = 1
    /\ dest = Untouched

\* The row being decoded while pc is "node", "body" or "write".
CurrentRow == FirstValid(h5_quads, qrow + 1)[qrow + 1]

InRow == pc \in {"node", "body", "write"}

\* The key row the current node function resolved its value key against.
ValueRow == key_store[node_value_key[i + 1] + 1]

\* The current node function's value key indexes a row of the key table.
ValueKeyInRange ==
    /\ pc \in {"node", "body"}
    /\ node_kind[i + 1] < 3
    /\ node_value_key[i + 1] < Len(key_store)

RowOffset(row) == BEInt(SubSeq(row, 1, 8))
RowLength(row) == BEInt(SubSeq(row, 9, 12))

\* Bytes [o, o + l) are a range of the byte store ss.
WithinStore(o, l, ss) == 0 <= o /\ 0 <= l /\ o + l <= Len(ss)

\* C5 (the claim as stated): _get_string never returns for an
\* indirect-mode row whose offset and length leave the byte store.
C5_OutOfBoundsIsFatal ==
    ~ /\ ValueKeyInRange
      /\ pc = "body"
      /\ ValueRow[KeyWidth] = 0
      /\ ~WithinStore(RowOffset(ValueRow), RowLength(ValueRow), str_store)

\* The node reference has kind bits 63-62 = 11.
IsKind3(w) == Bit(w, 63) = 1 /\ Bit(w, 62) = 1

\* C6: a node of kind 3 in a processed row is never handed to a node
\* function, never rendered and its row is never written: the call of
\* template[3] ends the decode with IndexError.
C6_Kind3IsFatal ==
    LET rows == FirstValid(h5_quads, Len(h5_quads))
    IN  \A k \in 1 .. Len(rows), c \in 1 .. 4 :
           IsKind3(rows[k][c]) =>
              /\ qrow < k
              /\ Len(store) < k
              /\ (InRow /\ qrow = k - 1) =>
                    /\ pc # "write"
                    /\ Len(quad_content) < c
                    /\ ~(pc = "body" /\ i + 1 = c)
                    /\ (pc = "node" /\ i + 1 = c /\ err # "none")
                          => err = "IndexError"

\* C6 witness: the last column of the row is of kind 3; the three columns
\* before it were rendered and the call for it raised IndexError.
C6_Witness ==
    /\ pc = "node"
    /\ i = 3
    /\ IsKind3(h5_quads[1].node[4])
    /\ Len(quad_content) = 3
    /\ err = "IndexError"
    /\ store = <<>>

\* C7: the word kind * 2^62 + resource_key * 2^31 + value_key, kind in
\* 0..2, decodes to the same kind, resource key and value key.  Packing
\* is one-to-one from (kind, resource_key, value_key) onto the 64-bit
\* words, so this is: the decoded fields of a word pack to that word.
C7_BitLayoutRoundTrip ==
    InRow =>
       LET row == CurrentRow
       IN  \A c \in 1 .. 4 :
              ~IsKind3(row[c]) =>
                 /\ node_kind[c] \in 0 .. 2
                 /\ node_key[c] \in 0 .. 2147483647
                 /\ node_value_key[c] \in 0 .. 2147483647
                 /\ row[c] = Pack(node_kind[c], node_key[c], node_value_key[c])

\* C7 witness: a literal (negative word) with the largest resource key and
\* value key 1 has been decoded.
C7_Witness ==
    /\ pc = "node"
    /\ i = 0
    /\ err = "none"
    /\ h5_quads[1].node[1] = Pack(2, 2147483647, 1)
    /\ Bit(h5_quads[1].node[1], 63) = 1
    /\ node_kind[1] = 2
    /\ node_key[1] = 2147483647
    /\ node_value_key[1] = 1

\* The bytes the claim says _get_string decodes for a key row.
ClaimedBytes(row, ss) ==
    LET n == row[Len(row)]
    IN  IF n > 0
        THEN [k \in 1 .. (IF n < Len(row) THEN n ELSE Len(row)) |-> row[k]]
        ELSE [k \in 1 .. RowLength(row) |-> ss[RowOffset(row) + k]]

\* C8: for an in-range key, _get_string decodes the first n bytes of the
\* row when its last byte n is positive, and bytes [O, O+L) of the byte
\* store when it is 0 and that range lies within the store: it returns
\* their UTF-8 decoding, and raises only when they are not valid UTF-8.
C8_DirectAndIndirectMode ==
    (/\ ValueKeyInRange
     /\ \/ ValueRow[KeyWidth] > 0
        \/ WithinStore(RowOffset(ValueRow), RowLength(ValueRow), str_store))
    => LET bytes == ClaimedBytes(ValueRow, str_store)
       IN  /\ pc = "body" => Utf8Valid(bytes) /\ val = Utf8Points(bytes)
           /\ (pc = "node" /\ err # "none") =>
                 ~Utf8Valid(bytes) /\ err = "UnicodeDecodeError"

\* C8 witness: an indirect row with offset 2 and length 2 resolved to the
\* two-byte e-acute stored there.
C8_Witness ==
    /\ pc = "body"
    /\ i = 0
    /\ key_store[2] = IndirectRow(2, 2)
    /\ node_value_key[1] = 1
    /\ val = <<233>>

\* One character's escape, independently of every other character.
EscapeChar(ch) ==
    CASE ch = 34 -> <<92, 34>>
      [] ch = 39 -> <<92, 39>>
      [] ch = 9 -> <<92, 116>>
      [] ch = 10 -> <<92, 110>>
      [] ch = 13 -> <<92, 114>>
      [] ch = 8 -> <<92, 98>>
      [] ch = 12 -> <<92, 102>>
      [] OTHER -> <<ch>>

EscapeEach(v) == Concat([k \in 1 .. Len(v) |-> EscapeChar(v[k])])

\* The string the dictionary of the file holds for a key.
Resolved(key) == _get_string(h5_keys, h5_bytes, key).val

\* C9: a rendered literal is its value, each character escaped
\* independently (backslash and all other characters unchanged), between
\* double quotes, followed by ^^<datatype> unless the resource key is 0.
C9_LiteralForm ==
    InRow =>
       LET row == CurrentRow
       IN  \A c \in 1 .. Len(quad_content) :
              Field(row[c], 62, 2) = 2 =>
                 quad_content[c] =
                    <<34>> \o EscapeEach(Resolved(Field(row[c], 0, 31))) \o <<34>>
                    \o (IF Field(row[c], 31, 31) = 0 THEN <<>>
                        ELSE <<94, 94, 60>>
                             \o Resolved(Field(row[c], 31, 31)) \o <<62>>)

\* C9 witness: the value a"<newline> was rendered as a typed literal whose
\* datatype key resolves to the same, unescaped, string.
C9_Witness ==
    /\ pc = "write"
    /\ Field(h5_quads[1].node[4], 62, 2) = 2
    /\ quad_content[4] =
          <<34, 97, 92, 34, 92, 110, 34, 94, 94, 60, 97, 34, 10, 62>>

\* s without one leading "-".
Undashed(v) == IF v # <<>> /\ v[1] = 45 THEN Tail(v) ELSE v

\* C10 (the claim as stated): a blank node renders, for every string its
\* value key resolves to, the empty string included, as "_:" and that
\* string without one leading "-".
C10_BlankNodeForm ==
    /\ (pc = "body" /\ node_kind[i + 1] = 0) => err = "none"
    /\ InRow =>
          LET row == CurrentRow
          IN  \A c \in 1 .. Len(quad_content) :
                 Field(row[c], 62, 2) = 0 =>
                    quad_content[c] =
                       <<95, 58>> \o Undashed(Resolved(Field(row[c], 0, 31)))

====
